---- MODULE Spec2Model ----
(***************************************************************************)
(* Model of constants.py: the table of physical constants, the species     *)
(* resolver get_species_mass and the eight conversion functions.           *)
(*                                                                         *)
(* Python floats are IEEE-754 binary64 values.  They are modelled bit for  *)
(* bit: a finite value is sign * m * 2^e with m < 2^53, kept as a          *)
(* multi-limb natural number, and every arithmetic operation rounds to     *)
(* nearest, ties to even, as the hardware does.                            *)
(***************************************************************************)
EXTENDS Integers, Sequences, FiniteSets, TLC

(***************************************************************************)
(* Natural numbers of arbitrary size: little-endian sequences of limbs in  *)
(* base 2^15 without leading zero limbs; zero is the empty sequence.       *)
(***************************************************************************)
Base == 32768

LimbBits == 15

Limb(a, i) == IF i <= Len(a) THEN a[i] ELSE 0

RECURSIVE BNorm(_)
BNorm(a) ==
  IF a = <<>> THEN a
  ELSE IF a[Len(a)] = 0 THEN BNorm(SubSeq(a, 1, Len(a) - 1)) ELSE a

RECURSIVE AddFrom(_, _, _, _)
AddFrom(a, b, i, cy) ==
  IF i > Len(a) /\ i > Len(b)
  THEN (IF cy = 0 THEN <<>> ELSE <<cy>>)
  ELSE LET t == Limb(a, i) + Limb(b, i) + cy
       IN  <<t % Base>> \o AddFrom(a, b, i + 1, t \div Base)

BAdd(a, b) == AddFrom(a, b, 1, 0)

RECURSIVE SubFrom(_, _, _, _)
SubFrom(a, b, i, bw) ==
  IF i > Len(a) THEN <<>>
  ELSE LET t == a[i] - Limb(b, i) - bw
       IN  IF t < 0 THEN <<t + Base>> \o SubFrom(a, b, i + 1, 1)
           ELSE <<t>> \o SubFrom(a, b, i + 1, 0)

\* a - b for a >= b
BSub(a, b) == BNorm(SubFrom(a, b, 1, 0))

RECURSIVE CmpFrom(_, _, _)
CmpFrom(a, b, i) ==
  IF i = 0 THEN 0
  ELSE IF a[i] > b[i] THEN 1
  ELSE IF a[i] < b[i] THEN -1
  ELSE CmpFrom(a, b, i - 1)

BCmp(a, b) ==
  IF Len(a) > Len(b) THEN 1
  ELSE IF Len(a) < Len(b) THEN -1
  ELSE CmpFrom(a, b, Len(a))

RECURSIVE MulSmallFrom(_, _, _, _)
MulSmallFrom(a, k, i, cy) ==
  IF i > Len(a) THEN (IF cy = 0 THEN <<>> ELSE <<cy>>)
  ELSE LET t == a[i] * k + cy
       IN  <<t % Base>> \o MulSmallFrom(a, k, i + 1, t \div Base)

\* a * k for a limb k < Base
BMulSmall(a, k) == IF k = 0 THEN <<>> ELSE MulSmallFrom(a, k, 1, 0)

BShlLimbs(a, n) == IF a = <<>> THEN a ELSE [i \in 1..n |-> 0] \o a

RECURSIVE MulFrom(_, _, _)
MulFrom(a, b, j) ==
  IF j > Len(b) THEN <<>>
  ELSE BAdd(BShlLimbs(BMulSmall(a, b[j]), j - 1), MulFrom(a, b, j + 1))

BMul(a, b) == MulFrom(a, b, 1)

\* a * 2^n
BShl(a, n) == BShlLimbs(BMulSmall(a, 2^(n % LimbBits)), n \div LimbBits)

\* floor(a / 2^n)
BShr(a, n) ==
  LET d == n \div LimbBits
      r == n % LimbBits
      L == Len(a)
  IN  IF d >= L THEN <<>>
      ELSE BNorm([i \in 1..(L - d) |->
                    (a[i + d] \div 2^r) + (Limb(a, i + d + 1) % 2^r) * 2^(LimbBits - r)])

BBitLen(a) ==
  IF a = <<>> THEN 0
  ELSE LimbBits * (Len(a) - 1)
         + (CHOOSE k \in 1..LimbBits : 2^(k - 1) <= a[Len(a)] /\ a[Len(a)] < 2^k)

\* bit i of a, bit 0 the least significant
BBit(a, i) == (Limb(a, i \div LimbBits + 1) \div 2^(i % LimbBits)) % 2

BOdd(a) == a # <<>> /\ a[1] % 2 = 1

\* a is a multiple of 2^n
BLowZero(a, n) == BShl(BShr(a, n), n) = a

\* Binary long division, one bit of the dividend at a time from the top; the
\* state st carries the quotient q and the remainder r so far.
\* 2*a + bit
BDoublePlus(a, bit) ==
  LET d == BMulSmall(a, 2)
  IN  IF bit = 0 THEN d
      ELSE IF d = <<>> THEN <<1>> ELSE [d EXCEPT ![1] = @ + 1]

RECURSIVE DivBits(_, _, _, _, _)
DivBits(n, d, i, stop, st) ==
  IF i < stop THEN st
  ELSE LET r2 == BDoublePlus(st.r, BBit(n, i))
       IN  IF BCmp(r2, d) >= 0
           THEN DivBits(n, d, i - 1, stop, [q |-> BDoublePlus(st.q, 1), r |-> BSub(r2, d)])
           ELSE DivBits(n, d, i - 1, stop, [q |-> BDoublePlus(st.q, 0), r |-> r2])

RECURSIVE DivLimbs(_, _, _, _)
DivLimbs(n, d, j, st) ==
  IF j = 0 THEN st
  ELSE DivLimbs(n, d, j - 1, DivBits(n, d, LimbBits * j - 1, LimbBits * (j - 1), st))

BDivMod(n, d) == DivLimbs(n, d, Len(n), [q |-> <<>>, r |-> <<>>])

\* Bit-pair square root, SqrtChunk result bits per pass.
SqrtChunk == 8

RECURSIVE SqrtBits(_, _, _, _)
SqrtBits(num, res, b, stop) ==
  IF b < stop THEN [q |-> res, r |-> num]
  ELSE LET bit == BShl(<<1>>, b)
           t   == BAdd(res, bit)
       IN  IF BCmp(num, t) >= 0
           THEN SqrtBits(BSub(num, t), BAdd(BShr(res, 1), bit), b - 2, stop)
           ELSE SqrtBits(num, BShr(res, 1), b - 2, stop)

RECURSIVE SqrtFrom(_, _)
SqrtFrom(st, b) ==
  IF b < 0 THEN st
  ELSE LET stop == IF b - 2 * SqrtChunk < 0 THEN 0 ELSE b - 2 * SqrtChunk + 2
       IN  SqrtFrom(SqrtBits(st.r, st.q, b, stop), stop - 2)

BSqrtRem(n) ==
  LET L == BBitLen(n)
      top == IF L % 2 = 0 THEN L - 2 ELSE L - 1
  IN  IF n = <<>> THEN [q |-> <<>>, r |-> <<>>]
      ELSE SqrtFrom([q |-> <<>>, r |-> n], top)

(***************************************************************************)
(* IEEE-754 binary64.  A value is [k, s, m, e]: k is "fin", "inf" or       *)
(* "nan", s the sign bit, and a finite value is (-1)^s * m * 2^e with      *)
(* either 2^52 <= m < 2^53 and EMin <= e <= EMax (normal), or m < 2^52 and *)
(* e = EMin (subnormal), or m = 0 and e = 0 (zero).                        *)
(***************************************************************************)
Precision == 53

EMin == -1074

EMax == 971

Fin(sg, mant, ex) == [k |-> "fin", s |-> sg, m |-> mant, e |-> ex]

FZero(sg) == Fin(sg, <<>>, 0)

FInf(sg) == [k |-> "inf", s |-> sg, m |-> <<>>, e |-> 0]

FNaN == [k |-> "nan", s |-> 0, m |-> <<>>, e |-> 0]

IsZero(x) == x.k = "fin" /\ x.m = <<>>

IMax(i, j) == IF i >= j THEN i ELSE j

IMin(i, j) == IF i <= j THEN i ELSE j

\* overflow of the rounded result gives an infinity
FPack(sg, mant, ex) ==
  IF BBitLen(mant) > Precision
  THEN (IF ex + 1 > EMax THEN FInf(sg) ELSE Fin(sg, BShr(mant, 1), ex + 1))
  ELSE IF ex > EMax THEN FInf(sg) ELSE Fin(sg, mant, ex)

\* The binary64 nearest to (-1)^sg * (mant + t) * 2^ex, ties to even, where
\* 0 < t < 1 if sticky and t = 0 otherwise; when sticky, mant has at least
\* Precision + 2 bits.
FRound(sg, mant, ex, sticky) ==
  LET L  == BBitLen(mant)
      sh == IMax(L - Precision, EMin - ex)
  IN  IF mant = <<>> /\ ~sticky THEN FZero(sg)
      ELSE IF sh <= 0
      THEN LET t == IMin(Precision - L, ex - EMin)
           IN  FPack(sg, BShl(mant, t), ex - t)
      ELSE LET q  == BShr(mant, sh)
               rb == BBit(mant, sh - 1)
               st == sticky \/ ~BLowZero(mant, sh - 1)
               up == rb = 1 /\ (st \/ BOdd(q))
               q1 == IF up THEN BAdd(q, <<1>>) ELSE q
           IN  IF q1 = <<>> THEN FZero(sg) ELSE FPack(sg, q1, ex + sh)

SignXor(x, y) == (x.s + y.s) % 2

FMul(x, y) ==
  IF x.k = "nan" \/ y.k = "nan" THEN FNaN
  ELSE IF x.k = "inf" \/ y.k = "inf"
  THEN (IF IsZero(x) \/ IsZero(y) THEN FNaN ELSE FInf(SignXor(x, y)))
  ELSE IF IsZero(x) \/ IsZero(y) THEN FZero(SignXor(x, y))
  ELSE FRound(SignXor(x, y), BMul(x.m, y.m), x.e + y.e, FALSE)

FDiv(x, y) ==
  IF x.k = "nan" \/ y.k = "nan" THEN FNaN
  ELSE IF x.k = "inf"
  THEN (IF y.k = "inf" THEN FNaN ELSE FInf(SignXor(x, y)))
  ELSE IF y.k = "inf" THEN FZero(SignXor(x, y))
  ELSE IF IsZero(y)
  THEN (IF IsZero(x) THEN FNaN ELSE FInf(SignXor(x, y)))
  ELSE IF IsZero(x) THEN FZero(SignXor(x, y))
  ELSE LET sc == Precision + 3 + BBitLen(y.m) - BBitLen(x.m)
           qr == BDivMod(BShl(x.m, sc), y.m)
       IN  FRound(SignXor(x, y), qr.q, x.e - y.e - sc, qr.r # <<>>)

FSqrt(x) ==
  IF x.k = "nan" THEN FNaN
  ELSE IF IsZero(x) THEN x
  ELSE IF x.s = 1 THEN FNaN
  ELSE IF x.k = "inf" THEN x
  ELSE LET s0 == 2 * Precision + 4 - BBitLen(x.m)
           sc == IF (x.e - s0) % 2 = 0 THEN s0 ELSE s0 + 1
           qr == BSqrtRem(BShl(x.m, sc))
       IN  FRound(0, qr.q, (x.e - sc) \div 2, qr.r # <<>>)

(***************************************************************************)
(* Python objects and the outcome of evaluating an expression: a value of  *)
(* type float (a Python float) or float64 (a numpy scalar), or a raised    *)
(* exception.  A raised operand propagates through every operator.         *)
(***************************************************************************)
Ok(type, val) == [kind |-> "ok", ty |-> type, f |-> val, exc |-> "", msg |-> <<>>]

Raise(exception, message) ==
  [kind |-> "raise", ty |-> "", f |-> FNaN, exc |-> exception, msg |-> message]

None == [kind |-> "none", ty |-> "", f |-> FNaN, exc |-> "", msg |-> <<>>]

PyFloat(val) == Ok("float", val)

\* a numpy scalar operand makes the operation a numpy operation
ResTy(x, y) == IF x.ty = "float64" \/ y.ty = "float64" THEN "float64" ELSE "float"

\* x * y
PyMul(x, y) ==
  IF x.kind = "raise" THEN x
  ELSE IF y.kind = "raise" THEN y
  ELSE Ok(ResTy(x, y), FMul(x.f, y.f))

\* x / y: float division by zero raises, numpy division by zero does not
PyDiv(x, y) ==
  IF x.kind = "raise" THEN x
  ELSE IF y.kind = "raise" THEN y
  ELSE IF ResTy(x, y) = "float" /\ IsZero(y.f)
  THEN Raise("ZeroDivisionError", <<"float division by zero">>)
  ELSE Ok(ResTy(x, y), FDiv(x.f, y.f))

\* x ** 2: float power raises on overflow, numpy power does not
PyPow2(x) ==
  IF x.kind = "raise" THEN x
  ELSE LET sq == FMul(x.f, x.f)
       IN  IF x.ty = "float" /\ x.f.k = "fin" /\ sq.k = "inf"
           THEN Raise("OverflowError", <<"(34, 'Numerical result out of range')">>)
           ELSE Ok(x.ty, sq)

\* np.sqrt(x): always a numpy scalar, nan for a negative operand
NpSqrt(x) == IF x.kind = "raise" THEN x ELSE Ok("float64", FSqrt(x.f))

\* the literals 2 and 0.5 of the formulas
Two == PyFloat(Fin(0, <<0, 0, 0, 128>>, -51))

Half == PyFloat(Fin(0, <<0, 0, 0, 128>>, -53))

(***************************************************************************)
(* The module's constants, with the values the import computes.            *)
(***************************************************************************)
\* numpy.pi = 3.141592653589793
pi == PyFloat(Fin(0, <<11544, 10376, 2029, 201>>, -51))

\* 6.62607015e-34
h == PyFloat(Fin(0, <<12561, 15364, 6191, 220>>, -163))

hbar == PyDiv(h, PyMul(Two, pi))

c == 299792458

\* 1.380649e-23
kB == PyFloat(Fin(0, <<25724, 10940, 17307, 133>>, -128))

\* 6.02214076e-23
NA == PyFloat(Fin(0, <<416, 15341, 19871, 145>>, -126))

\* 1.660539069e-27
mu == PyFloat(Fin(0, <<95, 29351, 18397, 131>>, -141))

\* 3.354e-10
d002 == PyFloat(Fin(0, <<10154, 8522, 12717, 184>>, -84))

\* 1.6749275e-27
mn == PyFloat(Fin(0, <<7948, 13050, 22984, 132>>, -141))

\* 4.002602*mu
mHe == PyMul(PyFloat(Fin(0, <<7653, 12935, 2728, 128>>, -50)), mu)

\* 3.0160293*mu
mHe3 == PyMul(PyFloat(Fin(0, <<14561, 28788, 847, 193>>, -51)), mu)

\* 1.6021892*1E-22
meV2J == PyMul(PyFloat(Fin(0, <<4617, 18688, 2628, 205>>, -52)),
               PyFloat(Fin(0, <<24294, 8238, 25728, 241>>, -126)))

\* the functions the module defines, with their parameters
Defined ==
  [get_species_mass |-> <<"species">>,
   lambda_to_E |-> <<"wavelength", "species">>,
   E_to_lambda |-> <<"energy", "species">>,
   lambda_to_p |-> <<"wavelength", "species">>,
   p_to_lambda |-> <<"momentum", "species">>,
   E_to_p |-> <<"energy", "species">>,
   p_to_E |-> <<"momentum", "species">>,
   v_to_E |-> <<"velocity", "species">>,
   E_to_v |-> <<"energy", "species">>]

\* the module namespace after the import
ModuleGlobals ==
  [h |-> h, hbar |-> hbar, c |-> c, kB |-> kB, NA |-> NA, mu |-> mu,
   d002 |-> d002, mn |-> mn, mHe |-> mHe, mHe3 |-> mHe3, meV2J |-> meV2J,
   functions |-> Defined]

(***************************************************************************)
(* Strings are sequences of one-character strings.                         *)
(***************************************************************************)
Lowers == <<"a", "b", "c", "d", "e", "f", "g", "h", "i", "j", "k", "l", "m",
            "n", "o", "p", "q", "r", "s", "t", "u", "v", "w", "x", "y", "z">>

Uppers == <<"A", "B", "C", "D", "E", "F", "G", "H", "I", "J", "K", "L", "M",
            "N", "O", "P", "Q", "R", "S", "T", "U", "V", "W", "X", "Y", "Z">>

\* str.lower() on one character
LowerChar(ch) ==
  IF \E i \in 1..26 : Uppers[i] = ch
  THEN Lowers[CHOOSE i \in 1..26 : Uppers[i] = ch]
  ELSE ch

\* str.lower()
Lower(str) == [i \in 1..Len(str) |-> LowerChar(str[i])]

\* str.replace(ch, '') for a one-character ch
Remove(str, ch) == LET Keep(x) == x # ch IN SelectSeq(str, Keep)

\* mutant: the hyphens are not removed
species_lower_keeps_hyphens(species) == Remove(Lower(species), " ")

\* species.lower().replace(' ', '').replace('-', '')
species_lower(species) == Remove(Remove(Lower(species), " "), "-")

NeutronNames == {<<"n">>, <<"n", "e", "u", "t", "r", "o", "n">>}

He3Names == {<<"h", "e", "3">>, <<"h", "e", "l", "i", "u", "m", "3">>,
             <<"3", "h", "e">>, <<"3", "h", "e", "l", "i", "u", "m">>}

He4Names == {<<"h", "e", "4">>, <<"h", "e", "l", "i", "u", "m", "4">>,
             <<"4", "h", "e">>, <<"4", "h", "e", "l", "i", "u", "m">>}

HeNames == {<<"h", "e">>, <<"h", "e", "l", "i", "u", "m">>}

Warning == "Warning: 'He' specified without isotope, defaulting to He-4"

\* mutant: the message names the normalized identifier
UnknownSpeciesNormalized(species) ==
  Raise("ValueError",
        <<"Unknown species: ", species_lower(species), ". Use 'n', 'He-3', 'He-4'">>)

UnknownSpecies(species) ==
  Raise("ValueError", <<"Unknown species: ", species, ". Use 'n', 'He-3', 'He-4'">>)

\* mutant: the He-3 and He-4 branches return each other's mass
GetSpeciesMassSwapped(species, g) ==
  LET key == species_lower(species)
  IN  IF key \in NeutronNames THEN [ret |-> g.mn, printed |-> <<>>]
      ELSE IF key \in He3Names THEN [ret |-> g.mHe, printed |-> <<>>]
      ELSE IF key \in He4Names THEN [ret |-> g.mHe3, printed |-> <<>>]
      ELSE IF key \in HeNames THEN [ret |-> g.mHe, printed |-> <<Warning>>]
      ELSE [ret |-> UnknownSpecies(species), printed |-> <<>>]

\* mutant: the ambiguous identifier is rejected like an unknown one
GetSpeciesMassStrict(species, g) ==
  LET key == species_lower(species)
  IN  IF key \in NeutronNames THEN [ret |-> g.mn, printed |-> <<>>]
      ELSE IF key \in He3Names THEN [ret |-> g.mHe3, printed |-> <<>>]
      ELSE IF key \in He4Names THEN [ret |-> g.mHe, printed |-> <<>>]
      ELSE [ret |-> UnknownSpecies(species), printed |-> <<>>]

\* mutant: an unknown identifier falls back to the neutron
GetSpeciesMassLenient(species, g) ==
  LET key == species_lower(species)
  IN  IF key \in He3Names THEN [ret |-> g.mHe3, printed |-> <<>>]
      ELSE IF key \in He4Names THEN [ret |-> g.mHe, printed |-> <<>>]
      ELSE IF key \in HeNames THEN [ret |-> g.mHe, printed |-> <<Warning>>]
      ELSE [ret |-> g.mn, printed |-> <<>>]

\* The body of get_species_mass run against the module globals g: what it
\* returns or raises, and the lines it prints.
GetSpeciesMass(species, g) ==
  LET key == species_lower(species)
  IN  IF key \in NeutronNames THEN [ret |-> g.mn, printed |-> <<>>]
      ELSE IF key \in He3Names THEN [ret |-> g.mHe3, printed |-> <<>>]
      ELSE IF key \in He4Names THEN [ret |-> g.mHe, printed |-> <<>>]
      ELSE IF key \in HeNames THEN [ret |-> g.mHe, printed |-> <<Warning>>]
      ELSE [ret |-> UnknownSpecies(species), printed |-> <<>>]

\* mutant: the default species is the ambiguous helium
DefaultSpeciesHelium == <<"H", "e">>

\* the default of the species parameter of every conversion function
DefaultSpecies == <<"n">>

\* the marker of a call that passes no species argument
Omitted == <<"">>

Converters == {"lambda_to_E", "E_to_lambda", "lambda_to_p", "p_to_lambda",
               "E_to_p", "p_to_E", "v_to_E", "E_to_v"}

\* the converters whose body calls get_species_mass
MassConverters == {"lambda_to_E", "E_to_lambda", "E_to_p", "p_to_E", "v_to_E", "E_to_v"}

(***************************************************************************)
(* The formulas of the eight conversion functions.                         *)
(***************************************************************************)
LambdaToE(wavelength, mass, g) ==
  PyDiv(PyDiv(PyPow2(g.h), PyMul(PyMul(Two, mass), PyPow2(wavelength))), g.meV2J)

EToLambda(energy, mass, g) ==
  PyDiv(g.h, NpSqrt(PyMul(PyMul(PyMul(Two, mass), energy), g.meV2J)))

LambdaToP(wavelength, g) == PyDiv(g.h, wavelength)

\* mutant: the reduced Planck constant is used
PToLambdaReduced(momentum, g) == PyDiv(g.hbar, momentum)

PToLambda(momentum, g) == PyDiv(g.h, momentum)

EToP(energy, mass, g) == NpSqrt(PyMul(PyMul(PyMul(Two, mass), energy), g.meV2J))

PToE(momentum, mass, g) ==
  PyDiv(PyDiv(PyPow2(momentum), PyMul(Two, mass)), g.meV2J)

VToE(velocity, mass, g) ==
  PyDiv(PyMul(PyMul(Half, mass), PyPow2(velocity)), g.meV2J)

EToV(energy, mass, g) == NpSqrt(PyDiv(PyMul(PyMul(Two, energy), g.meV2J), mass))

(***************************************************************************)
(* State.  globals is the module namespace (rebindable in Python), stdout  *)
(* the lines printed so far, frames the call frame of every calling        *)
(* thread, ncalls the number of calls made so far.                         *)
(*                                                                         *)
(* A frame: pc is "idle" (no call in progress), "resolve" (about to run    *)
(* get_species_mass), "body" (about to evaluate the formula) or "done"     *)
(* (returned or raised, the outcome in ret); fn, x and given are the       *)
(* function called, its value argument and the species argument as the     *)
(* caller passed it; sp is the value bound to the species parameter; m is  *)
(* the local m; printed is what the call has printed and out0 the length   *)
(* of stdout when the call began; prev is the caller's record of its       *)
(* previous call.                                                          *)
(***************************************************************************)
VARIABLES globals, stdout, frames, ncalls

vars == <<globals, stdout, frames, ncalls>>

NoCall == [fn |-> "", x |-> None, given |-> <<>>, ret |-> None]

IdleFrame(previous) ==
  [pc |-> "idle", fn |-> "", x |-> None, given |-> <<>>, sp |-> <<>>,
   m |-> None, ret |-> None, printed |-> <<>>, out0 |-> 0,
   prev |-> previous]

\* Thread t calls fn(x, given), or fn(x) when given is Omitted; the species
\* parameter takes its default when the argument is omitted.
Call(t, fn, x, given, limit) ==
  /\ frames[t].pc = "idle"
  /\ fn \in DOMAIN globals.functions
  /\ ncalls < limit
  /\ ncalls' = ncalls + 1
  /\ frames' = [frames EXCEPT ![t] =
       [pc |-> IF fn \in MassConverters \cup {"get_species_mass"}
               THEN "resolve" ELSE "body",
        fn |-> fn, x |-> x, given |-> given,
        sp |-> IF given = Omitted THEN DefaultSpecies ELSE given,
        m |-> None, ret |-> None, printed |-> <<>>, out0 |-> Len(stdout),
        prev |-> @.prev]]
  /\ UNCHANGED <<globals, stdout>>

\* mutant: the ambiguous branch rebinds the module's neutron mass
get_species_mass_rebinding(t) ==
  /\ frames[t].pc = "resolve"
  /\ LET r == GetSpeciesMass(frames[t].sp, globals)
     IN  /\ stdout' = stdout \o r.printed
         /\ globals' = IF r.printed = <<>> THEN globals
                       ELSE [globals EXCEPT !.mn = globals.mHe]
         /\ frames' = [frames EXCEPT ![t] =
              IF r.ret.kind = "raise" \/ @.fn = "get_species_mass"
              THEN [@ EXCEPT !.pc = "done", !.ret = r.ret, !.printed = r.printed]
              ELSE [@ EXCEPT !.pc = "body", !.m = r.ret, !.printed = r.printed]]
  /\ UNCHANGED ncalls

\* get_species_mass runs in thread t, called directly or by a converter; an
\* exception leaves the converter as it left the resolver.
get_species_mass(t) ==
  /\ frames[t].pc = "resolve"
  /\ LET r == GetSpeciesMass(frames[t].sp, globals)
     IN  /\ stdout' = stdout \o r.printed
         /\ frames' = [frames EXCEPT ![t] =
              IF r.ret.kind = "raise" \/ @.fn = "get_species_mass"
              THEN [@ EXCEPT !.pc = "done", !.ret = r.ret, !.printed = r.printed]
              ELSE [@ EXCEPT !.pc = "body", !.m = r.ret, !.printed = r.printed]]
  /\ UNCHANGED <<globals, ncalls>>

\* thread t evaluates the formula of fn and returns its value
Body(t, fn, value) ==
  /\ frames[t].pc = "body"
  /\ frames[t].fn = fn
  /\ frames' = [frames EXCEPT ![t] = [@ EXCEPT !.pc = "done", !.ret = value]]
  /\ UNCHANGED <<globals, stdout, ncalls>>

lambda_to_E(t) == Body(t, "lambda_to_E", LambdaToE(frames[t].x, frames[t].m, globals))

E_to_lambda(t) == Body(t, "E_to_lambda", EToLambda(frames[t].x, frames[t].m, globals))

\* mutant: lambda_to_p resolves the species like the mass-dependent converters
lambda_to_p_resolving(t) ==
  /\ frames[t].pc = "body"
  /\ frames[t].fn = "lambda_to_p"
  /\ LET r == GetSpeciesMass(frames[t].sp, globals)
     IN  /\ stdout' = stdout \o r.printed
         /\ frames' = [frames EXCEPT ![t] =
              [@ EXCEPT !.pc = "done", !.printed = r.printed,
                        !.ret = IF r.ret.kind = "raise" THEN r.ret
                                ELSE LambdaToP(@.x, globals)]]
  /\ UNCHANGED <<globals, ncalls>>

lambda_to_p(t) == Body(t, "lambda_to_p", LambdaToP(frames[t].x, globals))

p_to_lambda(t) == Body(t, "p_to_lambda", PToLambda(frames[t].x, globals))

E_to_p(t) == Body(t, "E_to_p", EToP(frames[t].x, frames[t].m, globals))

p_to_E(t) == Body(t, "p_to_E", PToE(frames[t].x, frames[t].m, globals))

v_to_E(t) == Body(t, "v_to_E", VToE(frames[t].x, frames[t].m, globals))

E_to_v(t) == Body(t, "E_to_v", EToV(frames[t].x, frames[t].m, globals))

\* The caller takes the outcome; with keep it remembers the call.
Return(t, keep) ==
  /\ frames[t].pc = "done"
  /\ frames' = [frames EXCEPT ![t] =
       IdleFrame(IF keep
                 THEN [fn |-> @.fn, x |-> @.x, given |-> @.given, ret |-> @.ret]
                 ELSE NoCall)]
  /\ UNCHANGED <<globals, stdout, ncalls>>

Steps(t) ==
  \/ get_species_mass(t)
  \/ lambda_to_E(t)
  \/ E_to_lambda(t)
  \/ lambda_to_p(t)
  \/ p_to_lambda(t)
  \/ E_to_p(t)
  \/ p_to_E(t)
  \/ v_to_E(t)
  \/ E_to_v(t)

(***************************************************************************)
(* Spec: one thread calls the converters, one call after another.          *)
(***************************************************************************)
MaxCalls == 2

\* 1.8e-10, 0.0, 25.0, -1.8e-10
Values == {PyFloat(Fin(0, <<4392, 15185, 29887, 197>>, -85)),
           PyFloat(FZero(0)),
           PyFloat(Fin(0, <<0, 0, 0, 200>>, -48)),
           PyFloat(Fin(1, <<4392, 15185, 29887, 197>>, -85))}

SpeciesArgs == {Omitted, <<"n">>, <<"N", "e", "u", "t", "r", "o", "n">>,
                <<"H", "e", "-", "3">>, <<"4", "H", "e">>, <<"H", "e">>,
                <<"h", "e", "l", "i", "u", "m">>,
                <<"x", "e", "n", "o", "n">>, <<>>}

\* the calling thread
Caller == {1}

Init ==
  /\ globals = ModuleGlobals
  /\ stdout = <<>>
  /\ frames = [t \in Caller |-> IdleFrame(NoCall)]
  /\ ncalls = 0

Next ==
  \E t \in Caller :
    \/ \E fn \in Converters, x \in Values, given \in SpeciesArgs :
         Call(t, fn, x, given, MaxCalls)
    \/ Steps(t)
    \/ Return(t, FALSE)

Spec == Init /\ [][Next]_vars

(***************************************************************************)
(* SpecResolver: the caller calls get_species_mass with a name, then with  *)
(* a respelling of that name: letters changed in case, spaces and hyphens  *)
(* inserted.                                                               *)
(***************************************************************************)
MaxSeparators == 1

\* str.upper() on one character
UpperChar(ch) ==
  IF \E i \in 1..26 : Lowers[i] = ch
  THEN Uppers[CHOOSE i \in 1..26 : Lowers[i] = ch]
  ELSE ch

CaseVariants(str) ==
  {[i \in 1..Len(str) |-> IF i \in S THEN UpperChar(str[i]) ELSE str[i]] :
     S \in SUBSET (1..Len(str))}

InsertAt(str, i, ch) == SubSeq(str, 1, i) \o <<ch>> \o SubSeq(str, i + 1, Len(str))

RECURSIVE WithSeparators(_, _)
WithSeparators(strs, n) ==
  IF n = 0 THEN strs
  ELSE LET less == WithSeparators(strs, n - 1)
       IN  less \cup UNION {{InsertAt(str, i, ch) : i \in 0..Len(str), ch \in {" ", "-"}} :
                              str \in less}

Spellings(str) == WithSeparators(CaseVariants(str), MaxSeparators)

\* "", "xenon", "h", "he5", "he_3", "nn", "3", "ne"
UnknownNames == {<<>>, <<"x", "e", "n", "o", "n">>, <<"h">>, <<"h", "e", "5">>,
                 <<"h", "e", "_", "3">>, <<"n", "n">>, <<"3">>,
                 <<"n", "e">>}

BaseNames == NeutronNames \cup He3Names \cup He4Names \cup HeNames \cup UnknownNames

ResolverArgs(prev) == IF prev.fn = "" THEN BaseNames ELSE Spellings(prev.given)

NextResolver ==
  \E t \in Caller :
    \/ /\ frames[t].pc = "idle"
       /\ \E given \in ResolverArgs(frames[t].prev) :
            Call(t, "get_species_mass", None, given, MaxCalls)
    \/ get_species_mass(t)
    \/ Return(t, frames[t].prev = NoCall)

SpecResolver == Init /\ [][NextResolver]_vars

(***************************************************************************)
(* SpecRoundTrip: the caller converts between wavelength and momentum and  *)
(* feeds each result to the next call.                                     *)
(***************************************************************************)
\* 1.8e-10, 1.9e-10, -1.9e-10, 3.5e-10, 1.3e-24, 3.68e-24, 2.0, 0.0,
\* 1e300, 1e280, 5e-324
Quantities == {PyFloat(Fin(0, <<4392, 15185, 29887, 197>>, -85)),
               PyFloat(Fin(0, <<10097, 14208, 29727, 208>>, -85)),
               PyFloat(Fin(1, <<10097, 14208, 29727, 208>>, -85)),
               PyFloat(Fin(0, <<17923, 15673, 13583, 192>>, -84)),
               PyFloat(Fin(0, <<1600, 3971, 5415, 201>>, -132)),
               PyFloat(Fin(0, <<8694, 6843, 11898, 142>>, -130)),
               PyFloat(Fin(0, <<0, 0, 0, 128>>, -51)),
               PyFloat(FZero(0)),
               PyFloat(Fin(0, <<30108, 4096, 4338, 191>>, 944)),
               PyFloat(Fin(0, <<11376, 19733, 1009, 141>>, 878)),
               PyFloat(Fin(0, <<1>>, -1074))}

SpeciesRT == {Omitted, <<"n">>, <<"H", "e", "-", "3">>, <<"H", "e", "-", "4">>}

RoundTripArgs(prev) ==
  IF prev.fn = "" \/ prev.ret.kind # "ok" THEN Quantities ELSE {prev.ret}

NextRoundTrip ==
  \E t \in Caller :
    \/ /\ frames[t].pc = "idle"
       /\ \E fn \in {"lambda_to_p", "p_to_lambda"}, given \in SpeciesRT,
             x \in RoundTripArgs(frames[t].prev) :
            Call(t, fn, x, given, MaxCalls)
    \/ lambda_to_p(t)
    \/ p_to_lambda(t)
    \/ Return(t, TRUE)

SpecRoundTrip == Init /\ [][NextRoundTrip]_vars

(***************************************************************************)
(* SpecThreads: two threads call the converters with no locking; their     *)
(* steps interleave.                                                       *)
(***************************************************************************)
Callers == {1, 2}

\* 1.8e-10
ValuesMT == {PyFloat(Fin(0, <<4392, 15185, 29887, 197>>, -85))}

SpeciesMT == {Omitted, <<"n">>, <<"H", "e">>, <<"x", "e", "n", "o", "n">>}

InitThreads ==
  /\ globals = ModuleGlobals
  /\ stdout = <<>>
  /\ frames = [t \in Callers |-> IdleFrame(NoCall)]
  /\ ncalls = 0

NextThreads ==
  \E t \in Callers :
    \/ \E fn \in Converters, x \in ValuesMT, given \in SpeciesMT :
         Call(t, fn, x, given, MaxCalls)
    \/ Steps(t)
    \/ Return(t, FALSE)

SpecThreads == InitThreads /\ [][NextThreads]_vars

(***************************************************************************)
(* The properties.                                                         *)
(***************************************************************************)
Done(t, fn) == frames[t].pc = "done" /\ frames[t].fn = fn

\* what the call in progress in thread t has added to stdout (one caller)
Emitted(t) == SubSeq(stdout, frames[t].out0 + 1, Len(stdout))

\* the alias table of the specification
AliasesNeutron == {<<"n">>, <<"n", "e", "u", "t", "r", "o", "n">>}

AliasesHe3 == {<<"h", "e", "3">>, <<"h", "e", "l", "i", "u", "m", "3">>,
               <<"3", "h", "e">>, <<"3", "h", "e", "l", "i", "u", "m">>}

AliasesHe4 == {<<"h", "e", "4">>, <<"h", "e", "l", "i", "u", "m", "4">>,
               <<"4", "h", "e">>, <<"4", "h", "e", "l", "i", "u", "m">>}

AliasesAmbiguous == {<<"h", "e">>, <<"h", "e", "l", "i", "u", "m">>}

RecognizedAliases == AliasesNeutron \cup AliasesHe3 \cup AliasesHe4 \cup AliasesAmbiguous

UnknownSpeciesError(species) ==
  [kind |-> "raise", ty |-> "", f |-> FNaN, exc |-> "ValueError",
   msg |-> <<"Unknown species: ", species, ". Use 'n', 'He-3', 'He-4'">>]

\* C1: get_species_mass returns, for an identifier that normalizes to a
\* neutron alias, the neutron mass mn; to a He-3 alias, mHe3; to a He-4 alias
\* or to the bare 'he' or 'helium', mHe; and never the mass of another species.
C1_AliasMass ==
  \A t \in Caller :
    Done(t, "get_species_mass") =>
      LET key == species_lower(frames[t].sp)
          ret == frames[t].ret
      IN  /\ key \in AliasesNeutron => ret = mn /\ ret \notin {mHe3, mHe}
          /\ key \in AliasesHe3 => ret = mHe3 /\ ret \notin {mn, mHe}
          /\ key \in AliasesHe4 \cup AliasesAmbiguous => ret = mHe /\ ret \notin {mn, mHe3}

C1_Witness ==
  /\ Done(1, "get_species_mass")
  /\ frames[1].sp = <<"4", "H", "e", "l", "i", "u", "m">>
  /\ frames[1].ret = mHe

\* s is the alias a with letters changed in case and spaces or hyphens inserted
Respelt(s, a) ==
  LET IsLetter(ch) == ch \notin {" ", "-"}
      letters == SelectSeq(s, IsLetter)
  IN  /\ Len(letters) = Len(a)
      /\ \A i \in 1..Len(a) : letters[i] \in {a[i], UpperChar(a[i])}

\* C2: get_species_mass is case- and separator-insensitive: called with a
\* respelling of a recognized alias (letters changed in case, spaces and
\* hyphens inserted) it returns the mass it returned for the alias itself.
C2_Respelling ==
  \A t \in Caller :
    /\ Done(t, "get_species_mass")
    /\ frames[t].prev.fn = "get_species_mass"
    /\ frames[t].prev.given \in RecognizedAliases
    /\ Respelt(frames[t].sp, frames[t].prev.given)
    => /\ frames[t].ret.kind = "ok"
       /\ frames[t].ret = frames[t].prev.ret

C2_Witness ==
  /\ Done(1, "get_species_mass")
  /\ frames[1].prev.given = <<"h", "e", "3">>
  /\ frames[1].sp = <<"H", "e", "-", "3">>
  /\ frames[1].ret = mHe3

\* C3: for an identifier whose normalized form is not a recognized alias, the
\* empty string included, get_species_mass returns no mass: it raises
\* ValueError with a message that holds the identifier as passed and the three
\* canonical choices, and it prints no advisory.
C3_UnknownRaises ==
  \A t \in Caller :
    Done(t, "get_species_mass") /\ species_lower(frames[t].sp) \notin RecognizedAliases
    => /\ frames[t].ret = UnknownSpeciesError(frames[t].given)
       /\ Emitted(t) = <<>>

C3_Witness ==
  /\ Done(1, "get_species_mass")
  /\ frames[1].given = <<"X", "e", "-", "n", "o", "n">>
  /\ frames[1].ret.exc = "ValueError"
  /\ frames[1].ret.msg[2] # species_lower(frames[1].given)

\* C4: an identifier that normalizes to 'he' or 'helium' is no error:
\* get_species_mass prints exactly one advisory and returns the He-4 mass, the
\* value 'He-4' gives; for every other identifier it prints nothing.
C4_Advisory ==
  \A t \in Caller :
    Done(t, "get_species_mass") =>
      IF species_lower(frames[t].sp) \in AliasesAmbiguous
      THEN /\ Emitted(t) = <<Warning>>
           /\ frames[t].ret = mHe
           /\ frames[t].ret = GetSpeciesMass(<<"H", "e", "-", "4">>, globals).ret
      ELSE Emitted(t) = <<>>

C4_Witness ==
  /\ Done(1, "get_species_mass")
  /\ frames[1].sp = <<"H", "e", "l", "i", "u", "m">>
  /\ stdout = <<Warning, Warning>>
  /\ frames[1].ret = mHe

\* C5 as stated: each of the eight conversion functions, called with an
\* unrecognized species, fails with the resolver's invalid-species error and
\* returns no value.
C5_AllConvertersRaise ==
  \A t \in Caller : \A fn \in Converters :
    Done(t, fn) /\ species_lower(frames[t].sp) \notin RecognizedAliases
    => frames[t].ret = UnknownSpeciesError(frames[t].given)

\* C5 as amended: each of the six conversion functions that use the mass
\* (lambda_to_E, E_to_lambda, E_to_p, p_to_E, v_to_E, E_to_v), called with an
\* unrecognized species, fails with the resolver's invalid-species error,
\* surfaced unchanged, and returns no value; lambda_to_p and p_to_lambda never
\* resolve the species and never fail with that error.
C5_MassConvertersRaise ==
  \A t \in Caller :
    /\ \A fn \in MassConverters :
         Done(t, fn) /\ species_lower(frames[t].sp) \notin RecognizedAliases
         => /\ frames[t].ret = UnknownSpeciesError(frames[t].given)
            /\ frames[t].ret = GetSpeciesMass(frames[t].sp, globals).ret
            /\ frames[t].m = None
    /\ \A fn \in {"lambda_to_p", "p_to_lambda"} :
         Done(t, fn) => frames[t].ret.exc # "ValueError" /\ frames[t].m = None

C5_Witness ==
  /\ Done(1, "E_to_v")
  /\ frames[1].given = <<"x", "e", "n", "o", "n">>
  /\ frames[1].ret.exc = "ValueError"

\* C6: for each of the eight conversion functions the module defines, under a
\* name of its own, a neutron-fixed wrapper: a function of the value alone,
\* with no species parameter.
C6_NeutronWrappers ==
  \A fn \in Converters :
    \E w \in DOMAIN globals.functions \ Converters :
      globals.functions[w] = <<globals.functions[fn][1]>>

\* C7: the species argument of every conversion function is optional and
\* defaults to the neutron: a call that omits it binds 'n', uses the mass mn,
\* prints no advisory, raises no invalid-species error and gives the result
\* of the same call with a neutron alias passed.
C7_DefaultNeutron ==
  \A t \in Callers :
    frames[t].given = Omitted /\ frames[t].pc \in {"body", "done"}
    => /\ frames[t].sp = <<"n">>
       /\ frames[t].printed = <<>>
       /\ frames[t].fn \in MassConverters => frames[t].m = mn
       /\ frames[t].pc = "done" => frames[t].ret.exc # "ValueError"
       /\ \A u \in Callers :
            /\ frames[t].pc = "done"
            /\ Done(u, frames[t].fn)
            /\ frames[u].x = frames[t].x
            /\ species_lower(frames[u].given) \in AliasesNeutron
            => frames[u].ret = frames[t].ret

C7_Witness ==
  /\ Done(1, "lambda_to_E")
  /\ Done(2, "lambda_to_E")
  /\ frames[1].given = Omitted
  /\ frames[2].given = <<"n">>
  /\ frames[1].ret.kind = "ok"

Deterministic ==
  \A t, u \in Callers :
    /\ frames[t].pc = "done"
    /\ Done(u, frames[t].fn)
    /\ frames[u].x = frames[t].x
    /\ frames[u].given = frames[t].given
    => frames[u].ret = frames[t].ret

OnlyAdvisory ==
  \/ stdout' = stdout
  \/ \E t \in Callers :
       /\ frames[t].pc = "resolve"
       /\ species_lower(frames[t].sp) \in AliasesAmbiguous
       /\ stdout' = Append(stdout, Warning)

IsNormal(val) == val.k = "fin" /\ BBitLen(val.m) = Precision

\* val is ref or one of the two binary64 values next to it:
\* |val - ref| <= 2^ref.e, one unit in the last place of ref
WithinOneUlp(val, ref) ==
  /\ val.k = "fin" /\ ref.k = "fin"
  /\ val.m # <<>> /\ ref.m # <<>>
  /\ val.s = ref.s
  /\ LET lo == IMin(val.e, ref.e)
         V  == BShl(val.m, val.e - lo)
         R  == BShl(ref.m, ref.e - lo)
         dist == IF BCmp(V, R) >= 0 THEN BSub(V, R) ELSE BSub(R, V)
     IN  BCmp(dist, BShl(<<1>>, ref.e - lo)) <= 0

\* thread t has converted a value and then converted the result back, with
\* the same species argument
RoundTrip(t) ==
  /\ frames[t].pc = "done"
  /\ {frames[t].fn, frames[t].prev.fn} = {"lambda_to_p", "p_to_lambda"}
  /\ frames[t].prev.ret.kind = "ok"
  /\ frames[t].x = frames[t].prev.ret
  /\ frames[t].given = frames[t].prev.given
  /\ ~IsZero(frames[t].prev.x.f)

\* C9 as stated: p_to_lambda(lambda_to_p(x, s), s) equals x exactly for every
\* nonzero wavelength x, and lambda_to_p(p_to_lambda(p, s), s) equals p for
\* every nonzero momentum p.
C9_ExactRoundTrip ==
  \A t \in Caller : RoundTrip(t) => frames[t].ret = frames[t].prev.x

\* C9 as amended: for every nonzero x whose conversion h / x is a normal
\* binary64 value, converting back gives x or one of the two floats next to
\* it (at most one unit in the last place away), in both directions.
C9_RoundTripWithinUlp ==
  \A t \in Caller :
    RoundTrip(t) /\ IsNormal(frames[t].x.f)
    => /\ frames[t].ret.kind = "ok"
       /\ frames[t].ret.ty = "float"
       /\ WithinOneUlp(frames[t].ret.f, frames[t].prev.x.f)

C9_Witness ==
  /\ RoundTrip(1)
  /\ frames[1].fn = "p_to_lambda"
  /\ IsNormal(frames[1].x.f)
  /\ frames[1].ret.kind = "ok"
  /\ frames[1].ret # frames[1].prev.x

\* C10: lambda_to_p and p_to_lambda do not depend on the species argument:
\* whatever it is, recognized or not, they return h divided by the value and
\* print no advisory; each of the other six converters prints exactly one
\* advisory when called with an ambiguous species.
C10_SpeciesIgnored ==
  \A t \in Caller :
    /\ \A fn \in {"lambda_to_p", "p_to_lambda"} :
         Done(t, fn) => /\ frames[t].ret = PyDiv(h, frames[t].x)
                        /\ Emitted(t) = <<>>
    /\ \A fn \in MassConverters :
         Done(t, fn) /\ species_lower(frames[t].sp) \in AliasesAmbiguous
         => Emitted(t) = <<Warning>>

C10_Witness ==
  /\ Done(1, "lambda_to_p")
  /\ frames[1].given = <<"x", "e", "n", "o", "n">>
  /\ frames[1].ret.kind = "ok"

====
